---- MODULE Spec2Model ----
(***************************************************************************)
(* Harvest Coordinator of pyq-finder (backend/app/routes/scraper.py), the   *)
(* Deduplication Gate (backend/app/services/firebase_service.py) and the    *)
(* record streams of the two harvesters (portal1_scraper.py,                *)
(* portal2_scraper.py).                                                     *)
(*                                                                          *)
(* One step of the model is one Python statement of a request handler or    *)
(* of the background thread that run_scrape executes in.  Steps of a        *)
(* thread that touch only its own locals are folded into the neighbouring   *)
(* step.  A generator runs only while its consumer pulls: the harvester     *)
(* code between two yields is part of the pull step (line 66).              *)
(***************************************************************************)
EXTENDS Integers, Sequences, FiniteSets, Bags, TLC

\* ------------------------------------------------------------------ bounds
\* Events of the environment over a run: start requests (POST /scrape, one
\* for each run_scrape the request asks for), stop requests (POST
\* /scrape/stop), failures of the store or of the listing fetch, and
\* preemptions (a thread takes a step while the thread that took the last
\* one has not finished).
MaxEvents == 3
\* events of the environment over a run whose termination is checked
LiveEvents == 2
\* records already in the collection when the gate is exercised on its own
MaxStored == 1

StartIds == 1..MaxEvents
StopIds == 1..MaxEvents

\* ------------------------------------------------------------------ Paper
\* models/paper.py: the fields the coordinator and the gate read.
Paper(url, code, yr, sem, exam) ==
    [pdf_url |-> url, subject_code |-> code, year |-> yr,
     semester |-> sem, exam_type |-> exam]

\* the value of the loop variable before the first yield
NoPaper == Paper("", "", "", "", "")

\* ------------------------------------------------------- the two portals
\* Listing of portal 1: the papers _parse_pdf_link makes of the page's
\* links.
A1 == Paper("p1/a.pdf", "CSE-1001", "2019", "Semester 3", "Regular")
Portal1Links == << A1 >>

\* Folder tree of portal 2 below one year and one session: the branch
\* level folders in page order, each with the papers _create_paper makes
\* of its documents.  The first is the paper of portal 1 under another
\* locator, the name of the second carries no subject code.
B1 == Paper("p2/a.pdf", "CSE-1001", "2019", "Semester 3", "Regular")
B2 == Paper("p2/b.pdf", "", "2019", "Semester 3", "Regular")
Portal2Folders == << << B1 >>, << B2 >> >>

\* ------------------------------------------------------- FirebaseService
\* The papers collection is a bag of documents: add() gives every document
\* a fresh id, so equal papers can be stored more than once.
Docs(coll) == BagToSet(coll)

\* query.where(field, '==', value)
Where(docs, field, value) == { d \in docs : d[field] = value }

\* len(list(query.limit(1).stream())) > 0
NonEmpty(docs) == docs # {}

paper_exists(coll, pdf_url) ==
    NonEmpty(Where(Docs(coll), "pdf_url", pdf_url))

\* variant: a candidate without a semester never matches
metadata_NeedsSemester(coll, subject_code, year, semester, exam_type) ==
    /\ subject_code # "" /\ year # "" /\ semester # ""
    /\ \E d \in Docs(coll) :
          /\ d.subject_code = subject_code
          /\ d.year = year
          /\ d.semester = semester
          /\ exam_type # "" => d.exam_type = exam_type

\* variant: the semester is compared even when the candidate has none
metadata_StrictSemester(coll, subject_code, year, semester, exam_type) ==
    /\ subject_code # "" /\ year # ""
    /\ \E d \in Docs(coll) :
          /\ d.subject_code = subject_code
          /\ d.year = year
          /\ d.semester = semester
          /\ exam_type # "" => d.exam_type = exam_type

paper_exists_by_metadata(coll, subject_code, year, semester, exam_type) ==
    IF subject_code = "" \/ year = ""
    THEN FALSE
    ELSE LET q1 == Where(Where(Docs(coll), "subject_code", subject_code),
                         "year", year)
             q2 == IF semester # "" THEN Where(q1, "semester", semester) ELSE q1
             q3 == IF exam_type # "" THEN Where(q2, "exam_type", exam_type) ELSE q2
         IN  NonEmpty(q3)

add_paper(coll, paper) == coll (+) SetToBag({paper})


\* ------------------------------------------------------------ generators
\* State of the generator object scrape_all() returns.  started: the body
\* has begun (first next()); ended: the body has returned or the generator
\* was finalised; i: links of portal 1 consumed; f, p: folder and document
\* of portal 2 last reached; inside: the traversal has clicked folder f
\* and not yet left it; depth: folders the browser session is below the
\* root; descents: folder clicks that succeeded; backs: calls of
\* _safe_go_back; at_head: depth at the head of the last iteration over
\* the folders of the branch level (line 174); stop_event: the
\* harvester's own threading.Event; driver: self.driver is a session;
\* opens, closes: sessions created and quit; fatal: scrape_all caught an
\* exception at line 152; out: the paper of the last yield.
NoGen ==
    [started |-> FALSE, ended |-> FALSE, i |-> 0, f |-> 0, p |-> 0,
     inside |-> FALSE, depth |-> 0, descents |-> 0, backs |-> 0,
     at_head |-> 0, stop_event |-> FALSE, driver |-> FALSE, opens |-> 0,
     closes |-> 0, fatal |-> FALSE, out |-> NoPaper]

\* depth of the branch level: below a year and a session folder
BranchDepth == 2

\* what can go wrong inside one next() of portal 2: nothing, _init_driver
\* raises (line 97), driver.get raises (line 100), a click of a folder of
\* the branch level fails on both attempts (line 187), the go-back out of
\* a folder fails on both attempts (line 222)
PullFaults == {"init", "get", "click", "back"}

\* Portal1Scraper.scrape_all with at most 10 links: the sequential loop.
\* Resumes after the yield of link g.i.
Portal1Next(g) ==
    IF g.stop_event \/ g.i >= Len(Portal1Links)
    THEN [g EXCEPT !.started = TRUE, !.ended = TRUE, !.out = NoPaper]
    ELSE [g EXCEPT !.started = TRUE, !.i = g.i + 1,
                   !.out = Portal1Links[g.i + 1]]

\* Portal2Scraper._init_driver, the session is created
init_driver(g) == [g EXCEPT !.driver = TRUE, !.opens = g.opens + 1]

\* Portal2Scraper._close_driver
close_driver(g) ==
    IF g.driver
    THEN [g EXCEPT !.driver = FALSE, !.closes = g.closes + 1]
    ELSE g

\* Portal2Scraper._safe_go_back; fails: both attempts raised.  At the
\* root there is no back link.
safe_go_back(g, fails) ==
    [g EXCEPT !.backs = g.backs + 1,
              !.depth = IF fails \/ g.depth = 0 THEN g.depth ELSE g.depth - 1]

\* Portal2Scraper._safe_click_folder of a folder listed at the branch
\* level; fails: both attempts raised.  Away from the branch level the
\* page has no link of that index.
safe_click_folder(g, fails) ==
    IF fails \/ g.depth # BranchDepth
    THEN g
    ELSE [g EXCEPT !.inside = TRUE, !.depth = g.depth + 1,
                   !.descents = g.descents + 1]

\* Portal2Scraper._scrape_branch_level: the loop over the folders of the
\* branch level, resumed after the yield of document g.p of folder g.f.
RECURSIVE BranchLevelNext(_, _)
BranchLevelNext(g, x) ==
    IF g.inside /\ g.p < Len(Portal2Folders[g.f]) /\ ~g.stop_event
    THEN [g EXCEPT !.p = g.p + 1, !.out = Portal2Folders[g.f][g.p + 1]]
    ELSE LET back == IF g.inside
                     THEN [safe_go_back(g, x = "back") EXCEPT !.inside = FALSE]
                     ELSE g
             x1 == IF g.inside /\ x = "back" THEN "ok" ELSE x
         IN  IF back.stop_event \/ back.f >= Len(Portal2Folders)
             THEN [back EXCEPT !.out = NoPaper]
             ELSE LET head == [back EXCEPT !.at_head = back.depth,
                                           !.f = back.f + 1, !.p = 0]
                  IN  BranchLevelNext(safe_click_folder(head, x1 = "click"),
                                      IF x1 = "click" THEN "ok" ELSE x1)

\* Portal2Scraper.scrape_all for one year with one session: open the
\* session, click the year and the session folder, run the branch level,
\* go back twice and close the session when the branch level is exhausted.
\* An exception of lines 97-150 is caught at line 152.
Portal2Next(g, x) ==
    IF ~g.started /\ x = "init"
    THEN close_driver([g EXCEPT !.started = TRUE, !.ended = TRUE,
                                !.fatal = TRUE, !.out = NoPaper])
    ELSE IF ~g.started /\ x = "get"
    THEN close_driver([init_driver(g) EXCEPT !.started = TRUE,
                                             !.ended = TRUE, !.fatal = TRUE,
                                             !.out = NoPaper])
    ELSE LET g0 == IF g.started THEN g
                   ELSE [init_driver(g) EXCEPT !.started = TRUE,
                                               !.depth = BranchDepth,
                                               !.descents = BranchDepth,
                                               !.at_head = BranchDepth]
             g1 == BranchLevelNext(g0, x)
         IN  IF g1.out = NoPaper
             THEN [close_driver(safe_go_back(safe_go_back(g1, FALSE), FALSE))
                     EXCEPT !.ended = TRUE]
             ELSE g1

\* the fault x can happen in the next() that resumes g
Applicable(g, x) ==
    CASE x \in {"init", "get"} -> ~g.started
      [] x = "back" -> g.inside /\ g.p >= Len(Portal2Folders[g.f])
      [] x = "click" -> /\ g.f < Len(Portal2Folders)
                        /\ g.inside => g.p >= Len(Portal2Folders[g.f])
      [] OTHER -> FALSE

\* variant: a generator dropped while suspended is never finalised
GenClose_NotFinalised(g) ==
    IF g.started /\ ~g.ended THEN [g EXCEPT !.ended = TRUE] ELSE g

\* The generator is finalised when run_scrape returns.  Suspended at a
\* yield it gets GeneratorExit there, which passes the except clauses of
\* lines 143 and 152 and runs the finally of line 154; no go-back runs.
GenClose(g) ==
    IF g.started /\ ~g.ended
    THEN [close_driver(g) EXCEPT !.ended = TRUE]
    ELSE g

\* ------------------------------------------------------------- the state
VARIABLES
    scrape_status,  \* the module-level dict of routes/scraper.py
    papers,         \* the papers collection of the store
    thr,            \* per start request: its response and its thread
    stop,           \* per stop request: its position and its response
    faults,         \* failures injected so far
    sched,          \* the thread that took the last step, preemptions so far
    gate,           \* the gate exercised on its own (GateSpec)
    seen,           \* the answer get_scrape_status is giving
    unit            \* a part of the program exercised on its own

vars == << scrape_status, papers, thr, stop, faults, sched, gate, seen,
          unit >>

Msg(k, title, n, m) == [k |-> k, title |-> title, n |-> n, m |-> m]

InitStatus ==
    [is_running |-> FALSE, stop_requested |-> FALSE, portal |-> "",
     progress |-> 0, skipped |-> 0, total |-> 0, errors |-> << >>,
     message |-> Msg("", "", 0, 0)]

\* A start request and the thread it starts.  resp: the HTTP status
\* answered; mode: the portal of the request body the thread was started
\* for; portal, count, skipped, paper, gen: the arguments and locals of
\* run_scrape.  The remaining fields record history: stopAcc, a stop
\* request was accepted while this thread's job was marked running;
\* stopLoop, while it was in the processing loop; observed, its loop has
\* read the stop flag set; late, the paper in hand was pulled after stopAcc; lateAdd and
\* obsAdd, a paper was added after that; yielded, papers pulled by the
\* current run_scrape.
NoThread ==
    [pc |-> "none", resp |-> "", mode |-> "", portal |-> "",
     count |-> 0, skipped |-> 0, paper |-> NoPaper, gen |-> NoGen,
     stopAcc |-> FALSE, stopLoop |-> FALSE, observed |-> FALSE,
     late |-> FALSE,
     lateAdd |-> FALSE, obsAdd |-> FALSE, yielded |-> 0]

\* The gate on its own.  store: the collection; cand: the paper checked
\* last; before: the collection it was checked against; meta: what
\* paper_exists_by_metadata answered for it; out: what the coordinator
\* made of it.
NoGate ==
    [store |-> EmptyBag, cand |-> NoPaper, before |-> EmptyBag,
     meta |-> FALSE, out |-> ""]

\* no status request is being answered; an answer is gone with the next
\* step of the model
NoSeen == [taken |-> FALSE, data |-> InitStatus]

\* no part is exercised on its own
NoUnit == << >>

Init ==
    /\ scrape_status = InitStatus
    /\ papers = EmptyBag
    /\ thr = [j \in StartIds |-> NoThread]
    /\ stop = [s \in StopIds |-> [pc |-> "new", resp |-> ""]]
    /\ faults = 0
    /\ sched = [last |-> 0, n |-> 0]
    /\ gate = NoGate
    /\ seen = NoSeen
    /\ unit = NoUnit

\* ------------------------------------------------------- small helpers
SetStatus(field, value) ==
    scrape_status' = [scrape_status EXCEPT ![field] = value]

\* thread j continues as the record t
Step(j, t) == thr' = [thr EXCEPT ![j] = t]

At(j, pc) == thr[j].pc = pc

\* the thread of j has marked the job running and not yet cleared the mark
RunningPcs ==
    {"L42", "L43", "L44", "L45", "L46", "L47", "L66", "L68", "L69", "L75",
     "L76", "L78", "L82", "L88", "L90", "L104", "L106", "L107", "L110",
     "L112", "L113", "L114", "L117", "L118", "L121"}

InJob(j) == thr[j].pc \in RunningPcs

\* the thread is in the loop of lines 66-110
LoopPcs ==
    {"L66", "L68", "L69", "L75", "L76", "L78", "L82", "L88", "L90", "L104",
     "L106", "L107", "L110"}

\* Threads: job thread j is j, the handler of stop request s is -s, the
\* handler of a start request (one step) is 0.
Finished(tid) ==
    IF tid = 0 THEN TRUE
    ELSE IF tid > 0 THEN thr[tid].pc \in {"none", "done"}
    ELSE stop[-tid].pc \in {"new", "done"}

\* tid, already begun, takes over from an unfinished thread
Preempts(tid) == tid # sched.last /\ ~Finished(sched.last)

\* events so far: sched.n counts the requests and the preemptions
Used == sched.n + faults

\* a request arrives and its handler takes its first step
Arrive(tid, cost) ==
    /\ Used + cost <= MaxEvents
    /\ sched' = [last |-> tid, n |-> sched.n + cost]
    /\ seen' = NoSeen

\* tid takes its next step
Run(tid) ==
    /\ Preempts(tid) => Used < MaxEvents
    /\ sched' = [last |-> tid,
                 n |-> IF Preempts(tid) THEN sched.n + 1 ELSE sched.n]
    /\ seen' = NoSeen

MayFail(j) == Used + (IF Preempts(j) THEN 1 ELSE 0) < MaxEvents

Fail == faults' = faults + 1

Portals == {"portal1", "portal2", "both"}

\* what a request body may name as its portal
RequestPortals == Portals \cup {"portal3"}

\* ---------------------------------------------------------- start_scrape
\* lines 138-143: a job is marked running, answer 409
StartAlreadyRunning(j, portal) ==
    /\ thr' = [thr EXCEPT ![j].resp = "409"]
    /\ UNCHANGED << scrape_status, papers, stop, faults, gate, unit >>

\* lines 151-155: the portal is none of the three, answer 400
StartInvalidPortal(j, portal) ==
    /\ thr' = [thr EXCEPT ![j].resp = "400"]
    /\ UNCHANGED << scrape_status, papers, stop, faults, gate, unit >>

\* lines 157-176: start the thread (run_both or run_scrape), answer 200.
\* run_both begins with run_scrape('portal1', ...).
StartThread(j, portal) ==
    /\ thr' = [thr EXCEPT ![j] =
                 [NoThread EXCEPT !.pc = "L41", !.resp = "200",
                                  !.mode = portal,
                                  !.portal = IF portal = "both" THEN "portal1"
                                             ELSE portal]]
    /\ UNCHANGED << scrape_status, papers, stop, faults, gate, unit >>

\* The handler reads is_running once (line 138) and touches nothing shared
\* before thread.start() (line 170); the new thread has not run yet.
start_scrape(j, portal) ==
    /\ thr[j].resp = ""
    /\ \A i \in StartIds : i < j => thr[i].resp # ""
    /\ Arrive(0, IF portal = "both" THEN 2 ELSE 1)
    /\ IF scrape_status.is_running
       THEN StartAlreadyRunning(j, portal)
       ELSE IF portal \notin Portals
            THEN StartInvalidPortal(j, portal)
            ELSE StartThread(j, portal)

\* variant: the rejected stop request still raises the stop flag
StopNotRunning_SetsFlag(s) ==
    /\ stop' = [stop EXCEPT ![s] = [pc |-> "done", resp |-> "400"]]
    /\ SetStatus("stop_requested", TRUE)
    /\ UNCHANGED << papers, thr, faults, gate, unit >>

\* ----------------------------------------------------- get_scrape_status
\* lines 179-185: the answer is built from the dict as it is
get_scrape_status ==
    /\ Used + 1 <= MaxEvents
    /\ sched' = [last |-> 0, n |-> sched.n + 1]
    /\ seen' = [taken |-> TRUE, data |-> scrape_status]
    /\ UNCHANGED << scrape_status, papers, thr, stop, faults, gate, unit >>

\* ----------------------------------------------------------- stop_scrape
\* lines 193-197: no job is marked running, answer 400
StopNotRunning(s) ==
    /\ stop' = [stop EXCEPT ![s] = [pc |-> "done", resp |-> "400"]]
    /\ UNCHANGED << scrape_status, papers, thr, faults, gate, unit >>

stop_L193(s) ==
    /\ stop[s].pc = "new"
    /\ Arrive(-s, 1)
    /\ \A i \in StopIds : i < s => stop[i].pc # "new"
    /\ IF ~scrape_status.is_running
       THEN StopNotRunning(s)
       ELSE /\ stop' = [stop EXCEPT ![s].pc = "L200"]
            /\ UNCHANGED << scrape_status, papers, thr, faults, gate, unit >>

\* line 200; every job marked running at this moment has had a stop accepted
stop_L200(s) ==
    /\ stop[s].pc = "L200"
    /\ Run(-s)
    /\ SetStatus("stop_requested", TRUE)
    /\ thr' = [j \in StartIds |->
                 IF InJob(j)
                 THEN [thr[j] EXCEPT !.stopAcc = TRUE,
                                     !.stopLoop = @ \/ thr[j].pc \in LoopPcs]
                 ELSE thr[j]]
    /\ stop' = [stop EXCEPT ![s].pc = "L201"]
    /\ UNCHANGED << papers, faults, gate, unit >>

\* lines 201-206
stop_L201(s) ==
    /\ stop[s].pc = "L201"
    /\ Run(-s)
    /\ SetStatus("message", Msg("Stopping...", "", 0, 0))
    /\ stop' = [stop EXCEPT ![s] = [pc |-> "done", resp |-> "200"]]
    /\ UNCHANGED << papers, thr, faults, gate, unit >>

\* ------------------------------------------------------------ run_scrape
\* lines 41-47: the status is reset field by field
run_L41(j) ==
    /\ At(j, "L41")
    /\ Run(j)
    /\ SetStatus("is_running", TRUE)
    /\ Step(j, [thr[j] EXCEPT !.pc = "L42"])
    /\ UNCHANGED << papers, stop, faults, gate, unit >>

run_L42(j) ==
    /\ At(j, "L42")
    /\ Run(j)
    /\ SetStatus("stop_requested", FALSE)
    /\ Step(j, [thr[j] EXCEPT !.pc = "L43"])
    /\ UNCHANGED << papers, stop, faults, gate, unit >>

run_L43(j) ==
    /\ At(j, "L43")
    /\ Run(j)
    /\ SetStatus("portal", thr[j].portal)
    /\ Step(j, [thr[j] EXCEPT !.pc = "L44"])
    /\ UNCHANGED << papers, stop, faults, gate, unit >>

run_L44(j) ==
    /\ At(j, "L44")
    /\ Run(j)
    /\ SetStatus("progress", 0)
    /\ Step(j, [thr[j] EXCEPT !.pc = "L45"])
    /\ UNCHANGED << papers, stop, faults, gate, unit >>

run_L45(j) ==
    /\ At(j, "L45")
    /\ Run(j)
    /\ SetStatus("skipped", 0)
    /\ Step(j, [thr[j] EXCEPT !.pc = "L46"])
    /\ UNCHANGED << papers, stop, faults, gate, unit >>

run_L46(j) ==
    /\ At(j, "L46")
    /\ Run(j)
    /\ SetStatus("errors", << >>)
    /\ Step(j, [thr[j] EXCEPT !.pc = "L47"])
    /\ UNCHANGED << papers, stop, faults, gate, unit >>

\* line 47, then lines 49-64: the scraper and its generator are created
\* (no harvester code runs yet) and the counters are zeroed
run_L47(j) ==
    /\ At(j, "L47")
    /\ Run(j)
    /\ SetStatus("message", Msg("Starting", thr[j].portal, 0, 0))
    /\ Step(j, [thr[j] EXCEPT !.pc = "L66", !.gen = NoGen, !.count = 0,
                              !.skipped = 0, !.paper = NoPaper,
                              !.yielded = 0])
    /\ UNCHANGED << papers, stop, faults, gate, unit >>

\* next() of the generator of the thread's portal
GenNext(j, x) ==
    IF thr[j].portal = "portal1" THEN Portal1Next(thr[j].gen)
    ELSE Portal2Next(thr[j].gen, x)

\* line 66 with a page wait that has no timeout: a click or a go-back
\* whose page never finishes loading never returns
Pull_WaitsForever(j, x) ==
    LET g == GenNext(j, x)
    IN  /\ IF x \in {"click", "back"}
           THEN Step(j, [thr[j] EXCEPT !.pc = "L66-wait"])
           ELSE IF g.out = NoPaper
           THEN Step(j, [thr[j] EXCEPT !.pc = "L112", !.gen = g])
           ELSE Step(j, [thr[j] EXCEPT !.pc = "L68", !.gen = g,
                                       !.paper = g.out,
                                       !.late = thr[j].stopAcc,
                                       !.yielded = thr[j].yielded + 1])
        /\ UNCHANGED << scrape_status, papers, stop, gate, unit >>

\* line 66, the generator yields a paper or is exhausted
Pull(j, x) ==
    LET g == GenNext(j, x)
    IN  /\ IF g.out = NoPaper
           THEN Step(j, [thr[j] EXCEPT !.pc = "L112", !.gen = g])
           ELSE Step(j, [thr[j] EXCEPT !.pc = "L68", !.gen = g,
                                       !.paper = g.out,
                                       !.late = thr[j].stopAcc,
                                       !.yielded = thr[j].yielded + 1])
        /\ UNCHANGED << scrape_status, papers, stop, gate, unit >>

\* line 66, a next() of portal 2 in which one thing goes wrong
PullFaulty(j) ==
    \E x \in PullFaults :
        /\ thr[j].portal = "portal2"
        /\ Applicable(thr[j].gen, x)
        /\ MayFail(j)
        /\ Fail
        /\ Pull(j, x)

\* line 66, first next() of portal 1: the fetch of the listing raises
\* (portal1_scraper.py lines 45-46) and the generator ends with it
FetchRaises(j) ==
    /\ thr[j].portal = "portal1"
    /\ ~thr[j].gen.started
    /\ MayFail(j)
    /\ Fail
    /\ Step(j, [thr[j] EXCEPT !.pc = "L117", !.gen.started = TRUE,
                              !.gen.ended = TRUE, !.gen.fatal = TRUE])
    /\ UNCHANGED << scrape_status, papers, stop, gate, unit >>

run_L66(j) ==
    /\ At(j, "L66")
    /\ Run(j)
    /\ \/ Pull(j, "ok") /\ UNCHANGED faults
       \/ PullFaulty(j)
       \/ FetchRaises(j)

\* line 68
run_L68(j) ==
    /\ At(j, "L68")
    /\ Run(j)
    /\ IF scrape_status.stop_requested
       THEN Step(j, [thr[j] EXCEPT !.pc = "L69", !.observed = TRUE])
       ELSE Step(j, [thr[j] EXCEPT !.pc = "L75"])
    /\ UNCHANGED << scrape_status, papers, stop, faults, gate, unit >>

\* lines 69-70
run_L69(j) ==
    /\ At(j, "L69")
    /\ Run(j)
    /\ SetStatus("message", Msg("Stopped!", "", thr[j].count, thr[j].skipped))
    /\ Step(j, [thr[j] EXCEPT !.pc = "L112"])
    /\ UNCHANGED << papers, stop, faults, gate, unit >>

\* variant: a failure inside the loop reaches the job-level handler
Raises_ToJobLevel(j) ==
    /\ MayFail(j)
    /\ Fail
    /\ Step(j, [thr[j] EXCEPT !.pc = "L117"])
    /\ UNCHANGED << scrape_status, papers, stop, gate, unit >>

\* a call of the store raises inside the try of lines 72-108
Raises(j) ==
    /\ MayFail(j)
    /\ Fail
    /\ Step(j, [thr[j] EXCEPT !.pc = "L110"])
    /\ UNCHANGED << scrape_status, papers, stop, gate, unit >>

\* line 75
run_L75(j) ==
    /\ At(j, "L75")
    /\ Run(j)
    /\ \/ /\ Step(j, [thr[j] EXCEPT !.pc =
                        IF paper_exists(papers, thr[j].paper.pdf_url)
                        THEN "L76" ELSE "L82"])
          /\ UNCHANGED << scrape_status, papers, stop, faults, gate, unit >>
       \/ Raises(j)

run_L76(j) ==
    /\ At(j, "L76")
    /\ Run(j)
    /\ SetStatus("message", Msg("Skipping (URL exists)", thr[j].paper.pdf_url, 0, 0))
    /\ Step(j, [thr[j] EXCEPT !.pc = "L78"])
    /\ UNCHANGED << papers, stop, faults, gate, unit >>

\* lines 77-79
run_L78(j) ==
    /\ At(j, "L78")
    /\ Run(j)
    /\ SetStatus("skipped", thr[j].skipped + 1)
    /\ Step(j, [thr[j] EXCEPT !.pc = "L66", !.skipped = thr[j].skipped + 1])
    /\ UNCHANGED << papers, stop, faults, gate, unit >>

\* lines 82-87: the store is asked only for a paper with a subject code
MetadataExists(coll, paper) ==
    /\ paper.subject_code # ""
    /\ paper_exists_by_metadata(coll, paper.subject_code, paper.year,
                                paper.semester, paper.exam_type)

\* lines 82-87, then line 94 with upload_to_storage false
run_L82(j) ==
    /\ At(j, "L82")
    /\ Run(j)
    /\ \/ /\ Step(j, [thr[j] EXCEPT !.pc =
                        IF MetadataExists(papers, thr[j].paper)
                        THEN "L88" ELSE "L104"])
          /\ UNCHANGED << scrape_status, papers, stop, faults, gate, unit >>
       \/ /\ thr[j].paper.subject_code # ""
          /\ Raises(j)

run_L88(j) ==
    /\ At(j, "L88")
    /\ Run(j)
    /\ SetStatus("message", Msg("Skipping (metadata exists)", thr[j].paper.pdf_url, 0, 0))
    /\ Step(j, [thr[j] EXCEPT !.pc = "L90"])
    /\ UNCHANGED << papers, stop, faults, gate, unit >>

\* lines 89-91
run_L90(j) ==
    /\ At(j, "L90")
    /\ Run(j)
    /\ SetStatus("skipped", thr[j].skipped + 1)
    /\ Step(j, [thr[j] EXCEPT !.pc = "L66", !.skipped = thr[j].skipped + 1])
    /\ UNCHANGED << papers, stop, faults, gate, unit >>

\* line 104
run_L104(j) ==
    /\ At(j, "L104")
    /\ Run(j)
    /\ \/ /\ papers' = add_paper(papers, thr[j].paper)
          /\ Step(j, [thr[j] EXCEPT !.pc = "L106",
                        !.lateAdd = thr[j].lateAdd \/ thr[j].late,
                        !.obsAdd = thr[j].obsAdd \/ thr[j].observed])
          /\ UNCHANGED << scrape_status, stop, faults, gate, unit >>
       \/ Raises(j)

\* lines 105-106
run_L106(j) ==
    /\ At(j, "L106")
    /\ Run(j)
    /\ SetStatus("progress", thr[j].count + 1)
    /\ Step(j, [thr[j] EXCEPT !.pc = "L107", !.count = thr[j].count + 1])
    /\ UNCHANGED << papers, stop, faults, gate, unit >>

run_L107(j) ==
    /\ At(j, "L107")
    /\ Run(j)
    /\ SetStatus("message", Msg("Saved", thr[j].paper.pdf_url, 0, 0))
    /\ Step(j, [thr[j] EXCEPT !.pc = "L66"])
    /\ UNCHANGED << papers, stop, faults, gate, unit >>

\* lines 109-110
run_L110(j) ==
    /\ At(j, "L110")
    /\ Run(j)
    /\ SetStatus("errors", Append(scrape_status.errors,
                                  Msg("Error processing", thr[j].paper.pdf_url, 0, 0)))
    /\ Step(j, [thr[j] EXCEPT !.pc = "L66"])
    /\ UNCHANGED << papers, stop, faults, gate, unit >>

\* line 112
run_L112(j) ==
    /\ At(j, "L112")
    /\ Run(j)
    /\ Step(j, [thr[j] EXCEPT !.pc =
                  IF ~scrape_status.stop_requested THEN "L113" ELSE "L114"])
    /\ UNCHANGED << scrape_status, papers, stop, faults, gate, unit >>

run_L113(j) ==
    /\ At(j, "L113")
    /\ Run(j)
    /\ SetStatus("message", Msg("Completed!", "", thr[j].count, thr[j].skipped))
    /\ Step(j, [thr[j] EXCEPT !.pc = "L114"])
    /\ UNCHANGED << papers, stop, faults, gate, unit >>

run_L114(j) ==
    /\ At(j, "L114")
    /\ Run(j)
    /\ SetStatus("total", thr[j].count)
    /\ Step(j, [thr[j] EXCEPT !.pc = "L121"])
    /\ UNCHANGED << papers, stop, faults, gate, unit >>

\* lines 116-117
run_L117(j) ==
    /\ At(j, "L117")
    /\ Run(j)
    /\ SetStatus("message", Msg("Scrape failed", "", 0, 0))
    /\ Step(j, [thr[j] EXCEPT !.pc = "L118"])
    /\ UNCHANGED << papers, stop, faults, gate, unit >>

run_L118(j) ==
    /\ At(j, "L118")
    /\ Run(j)
    /\ SetStatus("errors", Append(scrape_status.errors, Msg("fetch", "", 0, 0)))
    /\ Step(j, [thr[j] EXCEPT !.pc = "L121"])
    /\ UNCHANGED << papers, stop, faults, gate, unit >>

\* lines 120-121
run_L121(j) ==
    /\ At(j, "L121")
    /\ Run(j)
    /\ SetStatus("is_running", FALSE)
    /\ Step(j, [thr[j] EXCEPT !.pc = "L122"])
    /\ UNCHANGED << papers, stop, faults, gate, unit >>

\* line 122 and the return of run_scrape: the generator is released and
\* finalised.  run_both goes on to its line 162, run_scrape alone ends
\* the thread.
run_L122(j) ==
    /\ At(j, "L122")
    /\ Run(j)
    /\ SetStatus("stop_requested", FALSE)
    /\ Step(j, [thr[j] EXCEPT !.gen = GenClose(thr[j].gen),
                  !.pc = IF thr[j].mode = "both" /\ thr[j].portal = "portal1"
                         THEN "L162" ELSE "done"])
    /\ UNCHANGED << papers, stop, faults, gate, unit >>

\* run_both, lines 162-163; the locals of the run_scrape that returned
\* are gone
both_L162(j) ==
    /\ At(j, "L162")
    /\ Run(j)
    /\ IF ~scrape_status.stop_requested
       THEN Step(j, [thr[j] EXCEPT !.pc = "L41", !.portal = "portal2",
                                   !.count = 0, !.skipped = 0,
                                   !.paper = NoPaper, !.gen = NoGen,
                                   !.yielded = 0])
       ELSE Step(j, [thr[j] EXCEPT !.pc = "done"])
    /\ UNCHANGED << scrape_status, papers, stop, faults, gate, unit >>

\* ------------------------------------------------- the gate on its own
\* What the harvesters can put into the fields the gate reads.  Papers
\* with neither a subject code nor a year are left out: one of the two
\* empty already turns the fingerprint check off.
PaperUniverse ==
    { Paper(url, code, yr, sem, exam) :
        url \in {"u1", "u2"},
        code \in {"", "CSE-1001"},
        yr \in {"", "2019"},
        sem \in {"", "Semester 3", "Semester 4"},
        exam \in {"", "Regular", "Makeup"} }
    \ { Paper(url, "", "", sem, exam) :
        url \in {"u1", "u2"},
        sem \in {"", "Semester 3", "Semester 4"},
        exam \in {"", "Regular", "Makeup"} }

\* run_scrape lines 75-91 for one paper: which check rejects it, if any
Classify(coll, paper) ==
    IF paper_exists(coll, paper.pdf_url) THEN "url"
    ELSE IF MetadataExists(coll, paper) THEN "meta"
    ELSE "accept"

\* One paper passes through lines 75-107 with no other thread running.
GateIngest(paper) ==
    /\ BagCardinality(gate.store) <= MaxStored
    /\ gate' = [store |-> IF Classify(gate.store, paper) = "accept"
                          THEN add_paper(gate.store, paper)
                          ELSE gate.store,
                cand |-> paper,
                before |-> gate.store,
                meta |-> paper_exists_by_metadata(gate.store,
                            paper.subject_code, paper.year,
                            paper.semester, paper.exam_type),
                out |-> Classify(gate.store, paper)]
    /\ UNCHANGED << scrape_status, papers, thr, stop, faults, sched, seen,
                    unit >>

GateNext == \E paper \in PaperUniverse : GateIngest(paper)

GateSpec == Init /\ [][GateNext]_vars

Next ==
    \/ get_scrape_status
    \/ \E j \in StartIds, portal \in RequestPortals : start_scrape(j, portal)
    \/ \E s \in StopIds : stop_L193(s)
    \/ \E s \in StopIds : stop_L200(s)
    \/ \E s \in StopIds : stop_L201(s)
    \/ \E j \in StartIds : run_L41(j)
    \/ \E j \in StartIds : run_L42(j)
    \/ \E j \in StartIds : run_L43(j)
    \/ \E j \in StartIds : run_L44(j)
    \/ \E j \in StartIds : run_L45(j)
    \/ \E j \in StartIds : run_L46(j)
    \/ \E j \in StartIds : run_L47(j)
    \/ \E j \in StartIds : run_L66(j)
    \/ \E j \in StartIds : run_L68(j)
    \/ \E j \in StartIds : run_L69(j)
    \/ \E j \in StartIds : run_L75(j)
    \/ \E j \in StartIds : run_L76(j)
    \/ \E j \in StartIds : run_L78(j)
    \/ \E j \in StartIds : run_L82(j)
    \/ \E j \in StartIds : run_L88(j)
    \/ \E j \in StartIds : run_L90(j)
    \/ \E j \in StartIds : run_L104(j)
    \/ \E j \in StartIds : run_L106(j)
    \/ \E j \in StartIds : run_L107(j)
    \/ \E j \in StartIds : run_L110(j)
    \/ \E j \in StartIds : run_L112(j)
    \/ \E j \in StartIds : run_L113(j)
    \/ \E j \in StartIds : run_L114(j)
    \/ \E j \in StartIds : run_L117(j)
    \/ \E j \in StartIds : run_L118(j)
    \/ \E j \in StartIds : run_L121(j)
    \/ \E j \in StartIds : run_L122(j)
    \/ \E j \in StartIds : both_L162(j)

Spec == Init /\ [][Next]_vars

\* ------------------------------------------------------------ scheduling
\* the statements of the job thread j (threading.Thread, daemon, started
\* at start_scrape line 165-167): the interpreter keeps running it
RunSteps(j) ==
    \/ run_L41(j) \/ run_L42(j) \/ run_L43(j) \/ run_L44(j) \/ run_L45(j)
    \/ run_L46(j) \/ run_L47(j) \/ run_L66(j) \/ run_L68(j) \/ run_L69(j)
    \/ run_L75(j) \/ run_L76(j) \/ run_L78(j) \/ run_L82(j) \/ run_L88(j)
    \/ run_L90(j) \/ run_L104(j) \/ run_L106(j) \/ run_L107(j)
    \/ run_L110(j) \/ run_L112(j) \/ run_L113(j) \/ run_L114(j)
    \/ run_L117(j) \/ run_L118(j) \/ run_L121(j) \/ run_L122(j)
    \/ both_L162(j)

\* the rest of a stop handler that has begun
StopSteps(s) == stop_L200(s) \/ stop_L201(s)

\* every thread that can take its next statement eventually takes it
Fairness ==
    /\ \A j \in StartIds : WF_vars(RunSteps(j))
    /\ \A s \in StopIds : WF_vars(StopSteps(s))

\* the state after construction, LiveEvents events still to come
LiveInit ==
    /\ scrape_status = InitStatus
    /\ papers = EmptyBag
    /\ thr = [j \in StartIds |-> NoThread]
    /\ stop = [s \in StopIds |-> [pc |-> "new", resp |-> ""]]
    /\ faults = 0
    /\ sched = [last |-> 0, n |-> MaxEvents - LiveEvents]
    /\ gate = NoGate
    /\ seen = NoSeen
    /\ unit = NoUnit

LiveSpec == LiveInit /\ [][Next]_vars /\ Fairness


\* ================================================================ claims
Alive(j) == thr[j].pc \notin {"none", "done"}

\* C1: at most one harvest job runs at any time: of two start requests
\* issued while no job is running one is answered 409, so the processing
\* loops of two run_scrape calls are never active together.
C1_OneLoopAtATime ==
    \A i, j \in StartIds :
        i # j => ~(thr[i].pc \in LoopPcs /\ thr[j].pc \in LoopPcs)

\* C2: when no job is left (every started thread has ended) the running
\* flag and the stop-requested flag are both false.
C2_FlagsClearWhenIdle ==
    (\A j \in StartIds : ~Alive(j)) =>
        ~scrape_status.is_running /\ ~scrape_status.stop_requested

\* records the harvester of a portal can yield
Discoverable(portal) ==
    IF portal = "portal1" THEN Len(Portal1Links)
    ELSE Len(Portal2Folders[1]) + Len(Portal2Folders[2])

\* C3: once the loop of a job has observed the stop flag, the job ends
\* with the running flag false, its accepted and skipped counts together
\* do not exceed the records its harvester can yield, and the job accepts
\* no further record.
C3_Cancellation ==
    \A j \in StartIds :
        thr[j].observed =>
            /\ ~thr[j].obsAdd
            /\ thr[j].count + thr[j].skipped <= Discoverable(thr[j].portal)
            /\ (\A i \in StartIds : ~Alive(i)) => ~scrape_status.is_running

\* C4: after a stop request has been accepted for a job, no record whose
\* processing begins later is added to the store by that job.
C4_NoAddBegunAfterStop ==
    \A j \in StartIds : ~thr[j].lateAdd

\* C5: after a stop request has been accepted for a job whose harvester
\* has yielded a record, and while the stop flag it set is still set, the
\* harvester descends into no further folder.
C5_HarvesterStops ==
    [][ \A j \in StartIds :
          (thr[j].stopAcc /\ scrape_status.stop_requested
             /\ thr[j].yielded >= 1) =>
              thr'[j].gen.descents = thr[j].gen.descents ]_vars

\* C6: a start request handled while the running flag is set is answered
\* 409, only a request naming one of the three portals is answered 200
\* (any other is answered 409 or 400), a stop request handled while the
\* flag is clear is answered 400; a rejected request changes no field of
\* the status, stores nothing and starts no thread.
C6_RejectedNoSideEffects ==
    [][ /\ \A j \in StartIds :
            (thr[j].resp = "" /\ thr'[j].resp # "") =>
                /\ scrape_status.is_running => thr'[j].resp = "409"
                /\ thr'[j].resp \in {"200", "409", "400"}
                /\ thr'[j].resp = "200" => thr'[j].mode \in Portals
                /\ thr'[j].resp \in {"409", "400"} =>
                      /\ scrape_status' = scrape_status
                      /\ papers' = papers
                      /\ \A i \in StartIds : thr'[i].pc = thr[i].pc
        /\ \A s \in StopIds :
            (stop[s].pc = "new" /\ stop'[s].pc # "new") =>
                /\ ~scrape_status.is_running => stop'[s].resp = "400"
                /\ stop'[s].resp = "400" =>
                      /\ scrape_status' = scrape_status
                      /\ papers' = papers
                      /\ thr' = thr ]_vars

\* C6 witness: a start request was answered 409 and a stop request 400
C6_Witness ==
    /\ \E j \in StartIds : thr[j].resp = "409"
    /\ \E s \in StopIds : stop[s].resp = "400"

\* C7: the store never holds two records with the same pdf_url.
C7_OneRecordPerLocator ==
    \A d \in Docs(papers) :
        /\ CopiesIn(d, papers) <= 1
        /\ \A e \in Docs(papers) : e.pdf_url = d.pdf_url => e = d

SameFingerprint(a, b) ==
    /\ a.subject_code = b.subject_code
    /\ a.year = b.year
    /\ a.semester = b.semester
    /\ a.exam_type = b.exam_type

\* a stored record has the candidate's four fields under another locator
FingerprintTwin ==
    \E d \in Docs(gate.before) :
        d.pdf_url # gate.cand.pdf_url /\ SameFingerprint(d, gate.cand)

\* C8 as claimed: a record whose subject code, year, semester and exam
\* variant are those of a stored record with another locator is not
\* stored, whatever the four values are.
C8_AnyFingerprintDeduplicated ==
    (gate.out # "" /\ FingerprintTwin) => gate.out # "accept"

\* C8 as amended: with a non-empty subject code and a non-empty year a
\* record that has the four fields of a record stored under another
\* locator is rejected and the store is left as it was (by the fingerprint
\* check when its own locator is not stored); with an empty subject code
\* or an empty year a record whose locator is not stored is accepted.
C8_NonEmptyFingerprintDeduplicated ==
    /\ (gate.out # "" /\ FingerprintTwin
          /\ gate.cand.subject_code # "" /\ gate.cand.year # "") =>
           /\ gate.out # "accept"
           /\ gate.store = gate.before
           /\ ~paper_exists(gate.before, gate.cand.pdf_url) => gate.out = "meta"
    /\ (gate.out # ""
          /\ (gate.cand.subject_code = "" \/ gate.cand.year = "")
          /\ ~paper_exists(gate.before, gate.cand.pdf_url)) =>
           /\ gate.out = "accept"
           /\ gate.store = add_paper(gate.before, gate.cand)

\* C8 witness: the fingerprint check rejected a record with a new locator
\* and the four fields of a stored one
C8_Witness ==
    /\ gate.out = "meta"
    /\ FingerprintTwin
    /\ ~paper_exists(gate.before, gate.cand.pdf_url)

\* an optional field agrees when either side leaves it empty
WildcardAgree(x, y) == x = "" \/ y = "" \/ x = y

\* C9 as claimed: an empty semester or exam variant is a wildcard on
\* either side, so a stored record with the candidate's subject code and
\* year and an empty semester matches a candidate that names a semester.
C9_EmptyIsWildcard ==
    (gate.out # "" /\ gate.cand.subject_code # "" /\ gate.cand.year # ""
       /\ \E d \in Docs(gate.before) :
             /\ d.subject_code = gate.cand.subject_code
             /\ d.year = gate.cand.year
             /\ WildcardAgree(d.semester, gate.cand.semester)
             /\ WildcardAgree(d.exam_type, gate.cand.exam_type))
    => gate.meta

\* C9 as amended: the fingerprint check answers yes exactly when subject
\* code and year of the candidate are non-empty and a stored record has
\* both, and has the candidate's semester if the candidate names one, and
\* the candidate's exam variant if the candidate names one.  An empty
\* field of the candidate is not compared; an empty stored field does not
\* match a field the candidate names.
C9_CandidateFieldsCompared ==
    gate.out # "" =>
        (gate.meta <=>
            /\ gate.cand.subject_code # ""
            /\ gate.cand.year # ""
            /\ \E d \in Docs(gate.before) :
                  /\ d.subject_code = gate.cand.subject_code
                  /\ d.year = gate.cand.year
                  /\ gate.cand.semester # "" => d.semester = gate.cand.semester
                  /\ gate.cand.exam_type # "" => d.exam_type = gate.cand.exam_type)

\* C9 witness: a candidate without a semester matched a stored record
\* that has one
C9_Witness ==
    /\ gate.meta
    /\ gate.cand.semester = ""
    /\ \A d \in Docs(gate.before) : d.semester # ""

\* C10: a call of the store that raises for a record stores nothing and
\* counts nothing; the handler appends one entry to the error log, leaves
\* both counts as they were and returns to the head of the loop; the
\* job-level handler is reached only before the first record, and a loop
\* is left without the stop flag observed only when the harvester has no
\* further record.
C10_FailureStaysInRecord ==
    /\ [][ \A j \in StartIds :
             /\ (thr[j].pc \in {"L75", "L82", "L104"} /\ thr'[j].pc = "L110") =>
                   /\ papers' = papers
                   /\ scrape_status' = scrape_status
                   /\ thr'[j].count = thr[j].count
                   /\ thr'[j].skipped = thr[j].skipped
             /\ (thr[j].pc = "L110" /\ thr'[j].pc # "L110") =>
                   /\ Len(scrape_status'.errors) = Len(scrape_status.errors) + 1
                   /\ scrape_status'.errors[Len(scrape_status'.errors)].title
                        = thr[j].paper.pdf_url
                   /\ scrape_status'.progress = scrape_status.progress
                   /\ scrape_status'.skipped = scrape_status.skipped
                   /\ papers' = papers
                   /\ thr'[j].count = thr[j].count
                   /\ thr'[j].skipped = thr[j].skipped
                   /\ thr'[j].gen = thr[j].gen
                   /\ thr'[j].pc = "L66" ]_vars
    /\ [](\A j \in StartIds :
             /\ thr[j].pc \in {"L117", "L118"} => thr[j].yielded = 0
             /\ (thr[j].pc \in {"L112", "L113", "L114"} /\ ~thr[j].observed) =>
                   thr[j].gen.ended /\ thr[j].gen.out = NoPaper)

\* C10 witness: the first record of portal 2 failed and the second one
\* was saved by the same job
C10_Witness ==
    \E j \in StartIds :
        /\ thr[j].pc = "L107"
        /\ thr[j].paper = B2
        /\ Len(scrape_status.errors) = 1
        /\ scrape_status.errors[1].title = B1.pdf_url
        /\ thr[j].count = 1
        /\ Docs(papers) = {B2}

\* thread j is the only one that has not ended
Alone(j) == \A i \in StartIds : i # j => ~Alive(i)

\* C11: a job whose harvester failed fatally (the fetch of the listing of
\* portal 1, the creation of the browser session of portal 2) ends with
\* the failure message and an entry in the error log, and with the running
\* flag cleared.
C11_FatalFailureReported ==
    \A j \in StartIds :
        (Alone(j) /\ thr[j].gen.fatal) =>
            /\ thr[j].pc \in {"L121", "L122"} =>
                  /\ scrape_status.message.k = "Scrape failed"
                  /\ Len(scrape_status.errors) >= 1
            /\ thr[j].pc = "L122" => ~scrape_status.is_running

\* C12: when the traversal of the tree harvester has ended, however it
\* ended, the folder clicks that succeeded are as many as the calls of
\* _safe_go_back.
C12_NavigationBalanced ==
    \A j \in StartIds :
        thr[j].gen.ended => thr[j].gen.descents = thr[j].gen.backs

\* C13: at the head of every iteration over the folders of the branch
\* level the browser session is at the branch level.
C13_BackAtParentBeforeSibling ==
    \A j \in StartIds :
        thr[j].gen.f >= 1 => thr[j].gen.at_head = BranchDepth

\* C14: a harvester opens at most one browser session and quits it once:
\* self.driver is a session exactly between the creation and the quit, no
\* quit happens without a session, and when the traversal has ended or the
\* thread has left run_scrape the session that was opened has been quit.
C14_SessionClosedOnce ==
    \A j \in StartIds :
        LET g == thr[j].gen
        IN  /\ g.opens <= 1
            /\ g.closes <= g.opens
            /\ g.driver <=> g.opens = g.closes + 1
            /\ (g.ended \/ thr[j].pc \in {"L162", "done"}) =>
                  ~g.driver /\ g.closes = g.opens

\* C14 witness: a job was stopped with its generator suspended inside a
\* folder, and the session it had opened was quit
C14_Witness ==
    \E j \in StartIds :
        /\ thr[j].pc = "done"
        /\ thr[j].observed
        /\ thr[j].gen.inside
        /\ thr[j].gen.opens = 1
        /\ thr[j].gen.closes = 1

\* C15: at most one browser session is open at any time.
C15_OneSessionAlive ==
    Cardinality({j \in StartIds : thr[j].gen.driver}) <= 1

\* lines 42-47 of run_scrape are still to run for a thread at these places
ResetPcs == {"L42", "L43", "L44", "L45", "L46", "L47"}

\* get_scrape_status has just answered
IsRead ==
    /\ seen'.taken
    /\ sched'.n = sched.n + 1
    /\ UNCHANGED << scrape_status, thr, stop >>

\* the answer st shows the job of thread j and nothing of an earlier one
\* (the portal is empty until the first job has named one)
ShowsJob(st, j) ==
    /\ st.portal \in {thr[j].portal, InitStatus.portal}
    /\ st.progress <= thr[j].count
    /\ st.skipped <= thr[j].skipped
    /\ thr[j].pc \in ResetPcs => st.errors = << >>

\* C16: an answer of get_scrape_status that says running shows the portal,
\* the counts and the error list of a job that is marked running, not
\* those of an earlier job, and a message about a skipped or a saved
\* record comes with a count that includes the record.
C16_ConsistentSnapshot ==
    [][ IsRead =>
          LET st == seen'.data
          IN  st.is_running =>
                /\ \E j \in StartIds : InJob(j) /\ ShowsJob(st, j)
                /\ st.message.k \in {"Skipping (URL exists)",
                                     "Skipping (metadata exists)"} =>
                       st.skipped >= 1
                /\ st.message.k = "Saved" => st.progress >= 1 ]_vars

\* C17: when run_scrape ends for a job for which a stop request was
\* accepted while it was in its processing loop, and whose harvester did
\* not fail, the status message is the stopped-early summary.
C17_StoppedSummary ==
    \A j \in StartIds :
        (Alone(j) /\ thr[j].stopLoop /\ ~thr[j].gen.fatal
           /\ thr[j].pc \in {"L121", "L122"}) =>
            scrape_status.message.k = "Stopped!"

\* C19: a thread of a 'both' job whose portal 1 loop has observed the stop
\* flag does not go on from line 162 to run_scrape('portal2').
C19_StopSkipsPortal2 ==
    [][ \A j \in StartIds :
          (thr[j].pc = "L162" /\ thr[j].observed) =>
              thr'[j].pc \in {"L162", "done"} ]_vars

\* the thread of a 'both' job is past the running-flag reset of its
\* portal 1 phase and has not yet marked the portal 2 phase running
BetweenPhases(j) ==
    /\ thr[j].mode = "both"
    /\ \/ thr[j].portal = "portal1" /\ thr[j].pc \in {"L122", "L162"}
       \/ thr[j].portal = "portal2" /\ thr[j].pc = "L41"

\* C20: the running flag is set from the start of the portal 1 phase of a
\* 'both' job to the end of its portal 2 phase, so that no start request
\* is accepted between the phases.
C20_BothIsOneJob ==
    /\ \A j \in StartIds : BetweenPhases(j) => scrape_status.is_running
    /\ \A i, j \in StartIds :
          (i # j /\ BetweenPhases(j)) => thr[i].pc # "L41"

\* C18: every accepted job terminates.  Whatever transient failures hit
\* the jobs of a run (failed clicks, failed go-backs, page waits that run
\* out, ingestion errors), each job thread clears the running flag at line
\* 121, and once the requests of the run have been made there comes a
\* moment from which no job thread is alive, every harvester that was
\* started has ended its traversal and the running flag is false.
C18_EveryJobTerminates ==
    /\ [][ \A j \in StartIds :
             (thr[j].pc = "L121" /\ thr'[j].pc = "L122") =>
                 ~scrape_status'.is_running ]_vars
    /\ <>[](/\ ~scrape_status.is_running
            /\ \A j \in StartIds :
                   /\ ~Alive(j)
                   /\ thr[j].gen.started => thr[j].gen.ended)

\* a portal 2 job on its own has ended after a transient failure, the
\* running flag cleared
C18_Witness ==
    \E j \in StartIds :
        /\ Alone(j)
        /\ thr[j].pc = "done"
        /\ thr[j].portal = "portal2"
        /\ faults >= 1
        /\ thr[j].gen.ended
        /\ ~thr[j].gen.fatal
        /\ ~scrape_status.is_running

\* C21: the browser session of a portal 2 job is closed before the job is
\* reported as no longer running: once the thread of the job has cleared
\* the running flag at line 121, and while the flag is false, the session
\* of its harvester is closed.
C21_SessionClosedBeforeIdle ==
    \A j \in StartIds :
        (/\ thr[j].portal = "portal2"
         /\ thr[j].pc \in {"L122", "L162", "done"}
         /\ ~scrape_status.is_running) => ~thr[j].gen.driver

\* ------------------------------------------- parts exercised on their own
\* the service as constructed, no request made
NoRequests ==
    /\ scrape_status = InitStatus
    /\ papers = EmptyBag
    /\ thr = [j \in StartIds |-> NoThread]
    /\ stop = [s \in StopIds |-> [pc |-> "new", resp |-> ""]]
    /\ faults = 0
    /\ sched = [last |-> 0, n |-> 0]
    /\ gate = NoGate
    /\ seen = NoSeen

rest == << scrape_status, papers, thr, stop, faults, sched, gate, seen >>

\* ------------------------------- the coordinator fed in two orders
\* records the harvester yields in one run
MaxCands == 2

\* the orders in which n records can arrive
Perms(n) ==
    { f \in [1..n -> 1..n] : \A a, b \in 1..n : a # b => f[a] # f[b] }

\* the store before the job
InitialStores == {EmptyBag, SetToBag({A1}), SetToBag({B2})}

\* run_scrape lines 75-107 for one paper, upload_to_storage false, no
\* other thread running and no call raising: the store and the two counts
Ingest(side, paper) ==
    IF Classify(side.store, paper) = "accept"
    THEN [store |-> add_paper(side.store, paper),
          count |-> side.count + 1, skipped |-> side.skipped]
    ELSE [store |-> side.store,
          count |-> side.count, skipped |-> side.skipped + 1]

\* two jobs on equal stores, the second one given the records of the
\* first in the order perm
OrderInit ==
    /\ NoRequests
    /\ \E n \in 1..MaxCands, st \in InitialStores :
         \E cands \in [1..n -> PaperUniverse], perm \in Perms(n) :
            unit = [cands |-> cands, perm |-> perm, k |-> 0,
                    left |-> [store |-> st, count |-> 0, skipped |-> 0],
                    right |-> [store |-> st, count |-> 0, skipped |-> 0]]

\* both jobs take their next record through the loop body
OrderIngest ==
    /\ unit.k < Len(unit.cands)
    /\ unit' = [unit EXCEPT
                  !.k = unit.k + 1,
                  !.left = Ingest(unit.left, unit.cands[unit.k + 1]),
                  !.right = Ingest(unit.right,
                                   unit.cands[unit.perm[unit.k + 1]])]
    /\ UNCHANGED rest

OrderNext == OrderIngest

OrderSpec == OrderInit /\ [][OrderNext]_vars

LoopStream == << A1, B1, B2, A1 >>

\* which calls of the loop body raise for a record: paper_exists (line
\* 75), paper_exists_by_metadata (line 82), upload_pdf (line 97),
\* add_paper (line 104)
LoopFaults == SUBSET {"exists", "metadata", "upload", "add"}

\* lines 94-101: with upload_to_storage a failed upload is logged and the
\* record goes on to line 104
Upload(u, paper, x) ==
    IF u.upload /\ "upload" \in x
    THEN [u EXCEPT !.errors = Append(u.errors,
                                     Msg("Upload failed", paper.pdf_url, 0, 0))]
    ELSE u

\* lines 109-110
LoopError(u, paper) ==
    [u EXCEPT !.errors = Append(u.errors,
                                Msg("Error processing", paper.pdf_url, 0, 0))]

LoopSkip(u) == [u EXCEPT !.skipped = u.skipped + 1]

\* lines 72-110 for one record with the calls in x raising
LoopBody(u, paper, x) ==
    IF "exists" \in x THEN LoopError(u, paper)
    ELSE IF paper_exists(u.store, paper.pdf_url) THEN LoopSkip(u)
    ELSE IF paper.subject_code # "" /\ "metadata" \in x
    THEN LoopError(u, paper)
    ELSE IF MetadataExists(u.store, paper) THEN LoopSkip(u)
    ELSE LET v == Upload(u, paper, x)
         IN  IF "add" \in x THEN LoopError(v, paper)
             ELSE [v EXCEPT !.store = add_paper(v.store, paper),
                            !.count = v.count + 1]

\* line 63-64 of a job on an empty store, with or without the upload
LoopInit ==
    /\ NoRequests
    /\ \E upload \in BOOLEAN :
          unit = [upload |-> upload, k |-> 0, store |-> EmptyBag,
                  count |-> 0, skipped |-> 0, errors |-> << >>]

\* line 66 and the body for the next record; the stop flag is not set
LoopStep ==
    /\ unit.k < Len(LoopStream)
    /\ \E x \in LoopFaults :
          unit' = [LoopBody(unit, LoopStream[unit.k + 1], x)
                     EXCEPT !.k = unit.k + 1]
    /\ UNCHANGED rest

LoopNext == LoopStep

LoopSpec == LoopInit /\ [][LoopNext]_vars

\* C23: every record the loop takes from the harvester without having
\* seen the stop flag is classified exactly once: accepted count plus
\* skipped count plus the number of error entries is the number of
\* records processed, with and without the upload option.
C23_ClassifiedOnce ==
    unit.count + unit.skipped + Len(unit.errors) = unit.k

\* C24: whenever no job is running after at least one job has ended, the
\* status field total is the accepted count (progress) of the most recent
\* job, whether it completed, was stopped or failed.
C24_TotalIsProgress ==
    (/\ ~scrape_status.is_running
     /\ \A j \in StartIds : ~Alive(j)
     /\ \E j \in StartIds : thr[j].pc = "done") =>
        scrape_status.total = scrape_status.progress

\* ---------------------------------------- the tree harvester on its own
\* attempts of _safe_click_folder and of _safe_go_back
Retries == 2
\* sub_folders[:30] and len(sub_folders) < 50 of _scrape_branch_level
SubfolderCap == 30
SubfolderLimit == 50
\* attempts that raise over one traversal
MaxTreeFaults == 2

\* folder names of the trees below that contain a pattern of the skip
\* list of _should_skip_folder ('Help', 'SOP', 'Guidelines')
SkipNames == {"Help", "SOP", "Guidelines"}

should_skip_folder(name) == name \in SkipNames

\* a page of the portal: the folders it lists and how many PDF links
EmptyNode == [folders |-> << >>, pdfs |-> 0]

\* A tree that nests below the subject level and has administrative
\* folders at the year, the branch and the subject level.  A page is
\* named by the positions of the folders clicked from the root.
DeepTree ==
    (<< >> :> [folders |-> <<"2019", "Help">>, pdfs |-> 0])
    @@ (<<1>> :> [folders |-> <<"Dec 2022">>, pdfs |-> 0])
    @@ (<<1, 1>> :> [folders |-> <<"CSE", "Guidelines">>, pdfs |-> 1])
    @@ (<<1, 1, 1>> :> [folders |-> <<"Algorithms", "SOP">>, pdfs |-> 1])
    @@ (<<1, 1, 1, 1>> :> [folders |-> <<"Old">>, pdfs |-> 1])
    @@ (<<1, 1, 1, 1, 1>> :> [folders |-> <<"Older">>, pdfs |-> 1])
    @@ (<<1, 1, 1, 1, 1, 1>> :> [folders |-> << >>, pdfs |-> 1])
    @@ (<<1, 1, 1, 2>> :> [folders |-> << >>, pdfs |-> 1])
    @@ (<<1, 1, 2>> :> [folders |-> << >>, pdfs |-> 1])
    @@ (<<2>> :> [folders |-> <<"Manuals">>, pdfs |-> 0])
    @@ (<<2, 1>> :> [folders |-> << >>, pdfs |-> 1])

\* A tree with more folders at the branch level than the cap, a branch
\* folder with more subject folders than the cap and one with as many as
\* the limit.
WideTree ==
    (<< >> :> [folders |-> <<"2019">>, pdfs |-> 0])
    @@ (<<1>> :> [folders |-> <<"May 2019">>, pdfs |-> 0])
    @@ (<<1, 1>> :> [folders |-> [k \in 1..(SubfolderCap + 1) |-> "CSE"],
                     pdfs |-> 0])
    @@ (<<1, 1, 1>> :> [folders |-> [k \in 1..(SubfolderCap + 1) |-> "Algorithms"],
                        pdfs |-> 0])
    @@ (<<1, 1, 2>> :> [folders |-> [k \in 1..SubfolderLimit |-> "Algorithms"],
                        pdfs |-> 0])

Trees == [deep |-> DeepTree, wide |-> WideTree]

Node(t, p) == IF p \in DOMAIN Trees[t] THEN Trees[t][p] ELSE EmptyNode

Parent(p) == IF p = << >> THEN p ELSE SubSeq(p, 1, Len(p) - 1)

\* the name of the folder whose page is p
NameOf(t, p) == Node(t, Parent(p)).folders[p[Len(p)]]

\* find_elements("a[href*='__doPostBack']") on page p: the link to the
\* parent, except at the root, then the folders
Elements(t, p) ==
    IF p = << >> THEN Node(t, p).folders ELSE <<"..">> \o Node(t, p).folders

\* Portal2Scraper._get_folder_links: text and index among the elements
get_folder_links(t, p) ==
    [k \in 1..Len(Node(t, p).folders) |->
        [text |-> Node(t, p).folders[k],
         index |-> IF p = << >> THEN k - 1 ELSE k]]

\* elements[index].click() on page p, index < len(elements)
Navigate(p, index) ==
    IF p = << >> THEN Append(p, index + 1)
    ELSE IF index = 0 THEN Parent(p)
    ELSE Append(p, index)

NoCall == [index |-> 0, attempt |-> 0, before |-> 0, ok |-> "", fail |-> ""]

\* the harvester before its first next(): at: the page of the session;
\* ys, ss, bs, us: the listings of the year, session, branch and subject
\* loops and yi, si, bi, ui the entries taken from them; call: the click
\* or go-back under way; out: the pages whose PDFs were yielded; desc:
\* clicks that returned True for the listing of each loop
TreeStart(t) ==
    [tree |-> t, at |-> << >>, pc |-> "open", call |-> NoCall,
     ys |-> << >>, ss |-> << >>, bs |-> << >>, us |-> << >>,
     yi |-> 0, si |-> 0, bi |-> 0, ui |-> 0,
     out |-> {}, faults |-> 0,
     desc |-> [y |-> 0, s |-> 0, b |-> 0, u |-> 0]]

TreeInit ==
    /\ NoRequests
    /\ \E t \in DOMAIN Trees : unit = TreeStart(t)

\* the call _safe_click_folder(index) begins; it goes on at ok when it
\* returns True and at fail when it returns False
Click(u, index, ok, fail) ==
    [u EXCEPT !.pc = "click",
              !.call = [index |-> index, attempt |-> 0, before |-> Len(u.at),
                        ok |-> ok, fail |-> fail]]

\* the call _safe_go_back() begins; its result is not looked at
Back(u, ret) ==
    [u EXCEPT !.pc = "back",
              !.call = [index |-> 0, attempt |-> 0, before |-> Len(u.at),
                        ok |-> ret, fail |-> ret]]

\* the PDFs of the page are yielded one by one
YieldPdfs(u) ==
    IF Node(u.tree, u.at).pdfs > 0
    THEN [u EXCEPT !.out = u.out \cup {u.at}]
    ELSE u

\* scrape_all lines 97-105
T_Open ==
    /\ unit.pc = "open"
    /\ unit' = [unit EXCEPT !.pc = "year", !.yi = 0, !.desc.y = 0,
                            !.ys = get_folder_links(unit.tree, unit.at)]
    /\ UNCHANGED rest

\* scrape_all lines 107-123, the head of the loop over the years
T_Year ==
    /\ unit.pc = "year"
    /\ unit' = IF unit.yi >= Len(unit.ys)
               THEN [unit EXCEPT !.pc = "end"]
               ELSE Click([unit EXCEPT !.yi = unit.yi + 1],
                          unit.ys[unit.yi + 1].index, "sessions", "year")
    /\ UNCHANGED rest

\* scrape_all line 126
T_Sessions ==
    /\ unit.pc = "sessions"
    /\ unit' = [unit EXCEPT !.pc = "session", !.si = 0, !.desc.s = 0,
                            !.ss = get_folder_links(unit.tree, unit.at)]
    /\ UNCHANGED rest

\* scrape_all lines 128-138, and line 150 after the last session
T_Session ==
    /\ unit.pc = "session"
    /\ unit' = IF unit.si >= Len(unit.ss)
               THEN Back(unit, "year")
               ELSE Click([unit EXCEPT !.si = unit.si + 1],
                          unit.ss[unit.si + 1].index, "branch", "session")
    /\ UNCHANGED rest

\* _scrape_branch_level lines 159-171
T_Branch ==
    /\ unit.pc = "branch"
    /\ unit' = [YieldPdfs(unit) EXCEPT
                  !.pc = "folder", !.bi = 0, !.desc.b = 0,
                  !.bs = get_folder_links(unit.tree, unit.at)]
    /\ UNCHANGED rest

\* _scrape_branch_level lines 174-188, and scrape_all line 147 after the
\* last folder
T_Folder ==
    /\ unit.pc = "folder"
    /\ unit' = IF unit.bi >= Len(unit.bs)
               THEN Back(unit, "session")
               ELSE IF should_skip_folder(unit.bs[unit.bi + 1].text)
               THEN [unit EXCEPT !.bi = unit.bi + 1]
               ELSE Click([unit EXCEPT !.bi = unit.bi + 1],
                          unit.bs[unit.bi + 1].index, "leaf", "folder")
    /\ UNCHANGED rest

\* _scrape_branch_level lines 191-205, and line 222 when no subject
\* folder is explored
T_Leaf ==
    /\ unit.pc = "leaf"
    /\ LET sub_folders == get_folder_links(unit.tree, unit.at)
           u == YieldPdfs(unit)
       IN  unit' = IF sub_folders # << >> /\ Len(sub_folders) < SubfolderLimit
                   THEN [u EXCEPT
                           !.pc = "sub", !.ui = 0, !.desc.u = 0,
                           !.us = IF Len(sub_folders) <= SubfolderCap
                                  THEN sub_folders
                                  ELSE SubSeq(sub_folders, 1, SubfolderCap)]
                   ELSE Back(u, "folder")
    /\ UNCHANGED rest

\* _scrape_branch_level lines 205-210, and line 222 after the last
\* subject folder
T_Sub ==
    /\ unit.pc = "sub"
    /\ unit' = IF unit.ui >= Len(unit.us)
               THEN Back(unit, "folder")
               ELSE Click([unit EXCEPT !.ui = unit.ui + 1],
                          unit.us[unit.ui + 1].index, "inner", "sub")
    /\ UNCHANGED rest

\* _scrape_branch_level lines 212-220
T_Inner ==
    /\ unit.pc = "inner"
    /\ unit' = Back(YieldPdfs(unit), "sub")
    /\ UNCHANGED rest

\* the loop whose listing the click that goes on at ok belongs to
LevelOf(ok) ==
    CASE ok = "sessions" -> "y"
      [] ok = "branch" -> "s"
      [] ok = "leaf" -> "b"
      [] OTHER -> "u"

\* One attempt of _safe_click_folder, lines 296-309.  x: the attempt goes
\* through, raises before the click (stale element), or raises after the
\* click has started the navigation (click() or the page wait raises).
T_ClickAttempt ==
    /\ unit.pc = "click"
    /\ \E x \in {"ok", "stale", "late"} :
          LET els == Elements(unit.tree, unit.at)
              hit == unit.call.index < Len(els)
              moved == IF hit /\ x # "stale"
                       THEN Navigate(unit.at, unit.call.index)
                       ELSE unit.at
              n == unit.call.attempt + 1
              u == [unit EXCEPT !.at = moved, !.call.attempt = n,
                                !.faults = IF x = "ok" THEN @ ELSE @ + 1]
          IN  /\ x # "ok" => unit.faults < MaxTreeFaults
              /\ x = "late" => hit
              /\ unit' = IF hit /\ x = "ok"
                         THEN [u EXCEPT !.pc = unit.call.ok,
                                        !.desc[LevelOf(unit.call.ok)] = @ + 1]
                         ELSE IF n >= Retries
                         THEN [u EXCEPT !.pc = unit.call.fail]
                         ELSE u
    /\ UNCHANGED rest

\* One attempt of _safe_go_back, lines 313-338; at the root there is no
\* link to the parent and the call returns False at line 330.
T_BackAttempt ==
    /\ unit.pc = "back"
    /\ \E x \in {"ok", "stale", "late"} :
          LET has == unit.at # << >>
              moved == IF has /\ x # "stale" THEN Parent(unit.at) ELSE unit.at
              n == unit.call.attempt + 1
              u == [unit EXCEPT !.at = moved, !.call.attempt = n,
                                !.faults = IF x = "ok" THEN @ ELSE @ + 1]
          IN  /\ x # "ok" => unit.faults < MaxTreeFaults
              /\ x = "late" => has
              /\ unit' = IF x = "ok" \/ n >= Retries
                         THEN [u EXCEPT !.pc = unit.call.ok]
                         ELSE u
    /\ UNCHANGED rest

\* scrape_all lines 154-155
T_Close ==
    /\ unit.pc = "end"
    /\ unit' = [unit EXCEPT !.pc = "closed"]
    /\ UNCHANGED rest

TreeNext ==
    \/ T_Open
    \/ T_Year
    \/ T_Sessions
    \/ T_Session
    \/ T_Branch
    \/ T_Folder
    \/ T_Leaf
    \/ T_Sub
    \/ T_Inner
    \/ T_ClickAttempt
    \/ T_BackAttempt
    \/ T_Close

TreeSpec == TreeInit /\ [][TreeNext]_vars

\* the folders the session is inside of on page p
Inside(t, p) == { NameOf(t, SubSeq(p, 1, k)) : k \in 1..Len(p) }

\* C25: the recursion of the tree harvester is depth-bounded: at no point
\* of a traversal is the session more than four folders below the root
\* (year, session, branch folder, subject folder).
C25_DepthBounded == Len(unit.at) <= 4

\* C26: from one listing the tree harvester descends into at most 30
\* sibling folders, at every level of the traversal (here: of a traversal
\* in which no attempt raises).
C26_SiblingCap ==
    unit.faults = 0 =>
        \A level \in DOMAIN unit.desc : unit.desc[level] <= SubfolderCap

\* C27: a folder whose name matches the skip list is never descended
\* into, at whatever level it appears, and no record from inside such a
\* folder is yielded (here: in a traversal in which no attempt raises).
C27_SkipListNeverEntered ==
    unit.faults = 0 =>
        /\ \A name \in Inside(unit.tree, unit.at) : ~should_skip_folder(name)
        /\ \A p \in unit.out :
              \A name \in Inside(unit.tree, p) : ~should_skip_folder(name)

\* C28: a folder click is attempted at most 2 times; when it reports
\* failure the session is where it was, no go-back is issued and the
\* traversal goes on with the next sibling; when it reports success the
\* session is exactly one level below where it was.
C28_RetryPolicy ==
    [][ (unit.pc = "click" /\ unit'.pc # "click") =>
          /\ unit'.call.attempt <= Retries
          /\ unit'.pc = unit.call.ok =>
                Len(unit'.at) = unit.call.before + 1
          /\ unit'.pc = unit.call.fail =>
                /\ unit'.pc \in {"year", "session", "folder", "sub"}
                /\ Len(unit'.at) = unit.call.before ]_vars

\* ------------------------------------ the flat-list harvester on its own
\* len(pdf_links) > 10 of Portal1Scraper.scrape_all
ConcurrentThreshold == 10
\* max_workers of the harvester, from 1
MaxWorkers == 2
\* links of a listing whose extraction raises
MaxBad == 1

\* _parse_pdf_link on a link of the listing: a Paper, or an exception
\* (href of a link found at line 51 ends with '.pdf', so line 112 is not
\* reached)
ParseOutcomes == {"paper", "raise"}

\* listings at the threshold (sequential path) and just above it
ListingLengths == {ConcurrentThreshold, ConcurrentThreshold + 1}

Listing(n, bad) == [k \in 1..n |-> IF k \in bad THEN "raise" ELSE "paper"]

\* the harvester after __init__: links: the outcome of _parse_pdf_link
\* for each link of the page; i: links of the batches before; fut: the
\* state of each future of the batch; out: records yielded per link;
\* swapped: a future was collected before one submitted earlier
PoolStart(links, w) ==
    [links |-> links, max_workers |-> w, pc |-> "start",
     stop_event |-> FALSE, i |-> 0, fut |-> << >>,
     out |-> [k \in 1..Len(links) |-> 0], swapped |-> FALSE]

PoolInit ==
    /\ NoRequests
    /\ \E n \in ListingLengths, w \in 1..MaxWorkers :
          \E bad \in SUBSET (1..n) :
             /\ Cardinality(bad) <= MaxBad
             /\ unit = PoolStart(Listing(n, bad), w)

batch_size(u) == u.max_workers * 2

Min(a, b) == IF a < b THEN a ELSE b

\* pdf_links[i:i + batch_size], as positions of the listing
Batch(u) == (u.i + 1) .. Min(u.i + batch_size(u), Len(u.links))

Unfinished == {"queued", "running"}

\* Portal1Scraper.stop
F_Stop ==
    /\ unit.pc \notin {"end", "failed"}
    /\ ~unit.stop_event
    /\ unit' = [unit EXCEPT !.stop_event = TRUE]
    /\ UNCHANGED rest

\* scrape_all lines 42-57: the event is cleared, the page is fetched
\* (or the fetch raises) and the path is chosen
F_Fetch ==
    /\ unit.pc = "start"
    /\ \E x \in {"ok", "raise"} :
          unit' = [unit EXCEPT
                     !.stop_event = FALSE,
                     !.pc = IF x = "raise" THEN "failed"
                            ELSE IF Len(unit.links) > ConcurrentThreshold
                            THEN "batch"
                            ELSE "seq"]
    /\ UNCHANGED rest

\* scrape_all lines 59-69, one turn of the sequential loop
F_SeqLink ==
    /\ unit.pc = "seq"
    /\ unit' = IF unit.i >= Len(unit.links) \/ unit.stop_event
               THEN [unit EXCEPT !.pc = "end"]
               ELSE [unit EXCEPT
                       !.i = @ + 1,
                       !.out[unit.i + 1] =
                           IF unit.links[unit.i + 1] = "paper"
                           THEN @ + 1 ELSE @]
    /\ UNCHANGED rest

\* _scrape_concurrent lines 87-95: the head of the loop over the batches
\* and the submission of the batch
F_Batch ==
    /\ unit.pc = "batch"
    /\ unit' = IF unit.i >= Len(unit.links) \/ unit.stop_event
               THEN [unit EXCEPT !.pc = "end"]
               ELSE [unit EXCEPT !.pc = "collect",
                                 !.fut = [k \in Batch(unit) |-> "queued"]]
    /\ UNCHANGED rest

\* a free worker of the pool takes the oldest queued call of
\* process_link, lines 75-77
F_WorkerStart ==
    /\ unit.pc \in {"collect", "shutdown"}
    /\ Cardinality({k \in DOMAIN unit.fut : unit.fut[k] = "running"})
          < unit.max_workers
    /\ \E k \in DOMAIN unit.fut :
          /\ unit.fut[k] = "queued"
          /\ \A h \in DOMAIN unit.fut : h < k => unit.fut[h] # "queued"
          /\ unit' = [unit EXCEPT !.fut[k] = IF unit.stop_event
                                             THEN "none" ELSE "running"]
    /\ UNCHANGED rest

\* process_link lines 78-82: the call returns the Paper, or None after an
\* exception
F_WorkerDone ==
    /\ unit.pc \in {"collect", "shutdown"}
    /\ \E k \in DOMAIN unit.fut :
          /\ unit.fut[k] = "running"
          /\ unit' = [unit EXCEPT !.fut[k] = IF unit.links[k] = "paper"
                                             THEN "paper" ELSE "none"]
    /\ UNCHANGED rest

\* a variant of the loop over as_completed in which a future whose
\* result is None ends the loop
F_Take_NoneEndsBatch ==
    /\ unit.pc = "collect"
    /\ IF \A k \in DOMAIN unit.fut : unit.fut[k] = "taken"
       THEN unit' = [unit EXCEPT !.pc = "shutdown"]
       ELSE \E k \in DOMAIN unit.fut :
               /\ unit.fut[k] \in {"paper", "none"}
               /\ unit' = IF unit.stop_event \/ unit.fut[k] = "none"
                          THEN [unit EXCEPT !.pc = "shutdown"]
                          ELSE [unit EXCEPT
                                  !.fut[k] = "taken",
                                  !.out[k] = @ + 1,
                                  !.swapped = @ \/ \E h \in DOMAIN unit.fut :
                                       h < k /\ unit.fut[h] # "taken"]
    /\ UNCHANGED rest

\* _scrape_concurrent lines 97-103, one turn of the loop over
\* as_completed: the next finished future, whichever it is, is handed
\* over; its Paper is yielded; after the last future the loop ends
F_Take ==
    /\ unit.pc = "collect"
    /\ IF \A k \in DOMAIN unit.fut : unit.fut[k] = "taken"
       THEN unit' = [unit EXCEPT !.pc = "shutdown"]
       ELSE \E k \in DOMAIN unit.fut :
               /\ unit.fut[k] \in {"paper", "none"}
               /\ unit' = IF unit.stop_event
                          THEN [unit EXCEPT !.pc = "shutdown"]
                          ELSE [unit EXCEPT
                                  !.fut[k] = "taken",
                                  !.out[k] = IF unit.fut[k] = "paper"
                                             THEN @ + 1 ELSE @,
                                  !.swapped = @ \/ \E h \in DOMAIN unit.fut :
                                       h < k /\ unit.fut[h] # "taken"]
    /\ UNCHANGED rest

\* _scrape_concurrent lines 94 and 106: the with block is left, which
\* waits for every call of the batch, and the next batch is due
F_Shutdown ==
    /\ unit.pc = "shutdown"
    /\ \A k \in DOMAIN unit.fut : unit.fut[k] \notin Unfinished
    /\ unit' = [unit EXCEPT !.pc = "batch", !.fut = << >>,
                            !.i = @ + batch_size(unit)]
    /\ UNCHANGED rest

PoolNext ==
    \/ F_Stop
    \/ F_Fetch
    \/ F_SeqLink
    \/ F_Batch
    \/ F_WorkerStart
    \/ F_WorkerDone
    \/ F_Take
    \/ F_Shutdown

PoolSpec == PoolInit /\ [][PoolNext]_vars

\* C29: the flat-list harvester never yields a link twice and never
\* yields a link whose extraction failed; and when it has ended with no
\* stop signalled, every link whose extraction succeeded was yielded
\* exactly once, whatever the order in which the workers completed and
\* whichever links failed.
C29_OneRecordPerGoodLink ==
    /\ \A k \in DOMAIN unit.out :
          unit.out[k] <= (IF unit.links[k] = "paper" THEN 1 ELSE 0)
    /\ (unit.pc = "end" /\ ~unit.stop_event) =>
          \A k \in DOMAIN unit.out :
             unit.out[k] = (IF unit.links[k] = "paper" THEN 1 ELSE 0)

\* a concurrent run has ended without a stop: one link failed, a later
\* link was yielded, and a future was collected out of submission order
C29_Witness ==
    /\ unit.pc = "end"
    /\ ~unit.stop_event
    /\ Len(unit.links) > ConcurrentThreshold
    /\ unit.swapped
    /\ \E k, h \in DOMAIN unit.out :
          /\ k < h
          /\ unit.links[k] = "raise"
          /\ unit.out[k] = 0
          /\ unit.out[h] = 1

\* ------------------------------------------ the roman numeral decoders
\* letters of a numeral handed to a decoder
MaxRomanLen == 6

\* characters of the inputs: the letters of the table, a lower-case
\* letter and a letter that is not in the table
RomanLetters == {"I", "V", "X", "i", "L"}

RomanInputs == UNION { [1..n -> RomanLetters] : n \in 0..MaxRomanLen }

\* str.upper() on one character
Upper(c) == IF c = "i" THEN "I" ELSE c

\* Portal1Scraper._roman_to_int: values.get(char, 0)
Portal1_values(char) ==
    CASE char = "I" -> 1
      [] char = "V" -> 5
      [] char = "X" -> 10
      [] OTHER -> 0

\* Portal1Scraper._roman_to_int: the loop over reversed(roman.upper())
\* with k characters still to come
RECURSIVE Portal1_loop(_, _, _, _)
Portal1_loop(roman, k, prev, result) ==
    IF k = 0 THEN result
    ELSE LET curr == Portal1_values(Upper(roman[k]))
         IN  Portal1_loop(roman, k - 1, curr,
                          IF curr < prev THEN result - curr
                          ELSE result + curr)

Portal1_roman_to_int(roman) == Portal1_loop(roman, Len(roman), 0, 0)

\* Portal2Scraper._roman_to_int: values.get(char, 0)
Portal2_values(char) ==
    CASE char = "I" -> 1
      [] char = "V" -> 5
      [] char = "X" -> 10
      [] OTHER -> 0

\* Portal2Scraper._roman_to_int: the loop over reversed(roman.upper())
\* with k characters still to come
RECURSIVE Portal2_loop(_, _, _, _)
Portal2_loop(roman, k, prev, result) ==
    IF k = 0 THEN result
    ELSE LET curr == Portal2_values(Upper(roman[k]))
         IN  Portal2_loop(roman, k - 1, curr,
                          IF curr < prev THEN result - curr
                          ELSE result + curr)

\* a variant of the decoder that reads the numeral from the left
Portal2_roman_to_int_FromLeft(roman) ==
    Portal2_loop([k \in 1..Len(roman) |-> roman[Len(roman) + 1 - k]],
                 Len(roman), 0, 0)

Portal2_roman_to_int(roman) == Portal2_loop(roman, Len(roman), 0, 0)

RomanInit ==
    /\ NoRequests
    /\ \E roman \in RomanInputs :
          unit = [roman |-> roman, done1 |-> FALSE, done2 |-> FALSE,
                  p1 |-> 0, p2 |-> 0]

\* the flat-list harvester decodes the numeral
R_Portal1 ==
    /\ ~unit.done1
    /\ unit' = [unit EXCEPT !.done1 = TRUE,
                            !.p1 = Portal1_roman_to_int(unit.roman)]
    /\ UNCHANGED rest

\* the tree harvester decodes the numeral
R_Portal2 ==
    /\ ~unit.done2
    /\ unit' = [unit EXCEPT !.done2 = TRUE,
                            !.p2 = Portal2_roman_to_int(unit.roman)]
    /\ UNCHANGED rest

RomanNext ==
    \/ R_Portal1
    \/ R_Portal2

RomanSpec == RomanInit /\ [][RomanNext]_vars

\* C30: for every roman numeral in standard form over I, V, X (1 to 39:
\* tens as X's, then the units I, II, III, IV, V, VI, VII, VIII, IX) each
\* decoder returns the number, and the two decoders return the same
\* result on every input.
C30_RomanDecoding ==
    LET units == << << >>, <<"I">>, <<"I", "I">>, <<"I", "I", "I">>,
                    <<"I", "V">>, <<"V">>, <<"V", "I">>,
                    <<"V", "I", "I">>, <<"V", "I", "I", "I">>,
                    <<"I", "X">> >>
        numeral(n) == [k \in 1..(n \div 10) |-> "X"] \o units[(n % 10) + 1]
    IN  /\ \A n \in 1..39 :
              unit.roman = numeral(n) =>
                 /\ unit.done1 => unit.p1 = n
                 /\ unit.done2 => unit.p2 = n
        /\ (unit.done1 /\ unit.done2) => unit.p1 = unit.p2

\* both decoders have decoded XIV, a numeral with a subtractive pair
C30_Witness ==
    /\ unit.roman = <<"X", "I", "V">>
    /\ unit.done1
    /\ unit.done2
    /\ unit.p1 = 14
    /\ unit.p2 = 14

\* ----------------------------------------------- the branch extractors
\* str.lower() on one character
LowerChar(c) ==
    CASE c = "A" -> "a" [] c = "B" -> "b" [] c = "C" -> "c" [] c = "D" -> "d"
      [] c = "E" -> "e" [] c = "F" -> "f" [] c = "G" -> "g" [] c = "H" -> "h"
      [] c = "I" -> "i" [] c = "J" -> "j" [] c = "K" -> "k" [] c = "L" -> "l"
      [] c = "M" -> "m" [] c = "N" -> "n" [] c = "O" -> "o" [] c = "P" -> "p"
      [] c = "Q" -> "q" [] c = "R" -> "r" [] c = "S" -> "s" [] c = "T" -> "t"
      [] c = "U" -> "u" [] c = "V" -> "v" [] c = "W" -> "w" [] c = "X" -> "x"
      [] c = "Y" -> "y" [] c = "Z" -> "z" [] OTHER -> c

\* str.lower()
RECURSIVE lower(_)
lower(s) ==
    IF s = "" THEN ""
    ELSE LowerChar(SubSeq(s, 1, 1)) \o lower(SubSeq(s, 2, Len(s)))

\* sub in s
Contains(sub, s) ==
    \E k \in 1..(Len(s) - Len(sub) + 1) : SubSeq(s, k, k + Len(sub) - 1) = sub

\* the list branches of Portal1Scraper._extract_branch
Portal1_branches ==
    << "Chemical", "Civil", "Computer", "Electrical", "Electronics",
       "Information Technology", "Mechanical", "Mechatronics",
       "Automobile", "Aeronautical", "Biomedical", "Biotechnology",
       "Industrial", "Instrumentation", "Computer and Communication",
       "Architecture" >>

\* the list branches of Portal2Scraper._extract_branch
Portal2_branches ==
    << "Chemical", "Civil", "Computer", "Electrical", "Electronics",
       "Information Technology", "Mechanical", "Mechatronics",
       "Automobile", "Aeronautical", "Biomedical", "Biotechnology",
       "Industrial", "Instrumentation", "Computer and Communication" >>

\* Portal1Scraper._extract_branch: the loop from entry k of the list
RECURSIVE Portal1_branch_loop(_, _)
Portal1_branch_loop(path_lower, k) ==
    IF k > Len(Portal1_branches) THEN ""
    ELSE IF Contains(lower(Portal1_branches[k]), path_lower)
    THEN Portal1_branches[k]
    ELSE Portal1_branch_loop(path_lower, k + 1)

Portal1_extract_branch(path) == Portal1_branch_loop(lower(path), 1)

\* Portal2Scraper._extract_branch: the loop from entry k of the list
RECURSIVE Portal2_branch_loop(_, _)
Portal2_branch_loop(text_lower, k) ==
    IF k > Len(Portal2_branches) THEN ""
    ELSE IF Contains(lower(Portal2_branches[k]), text_lower)
    THEN Portal2_branches[k]
    ELSE Portal2_branch_loop(text_lower, k + 1)

Portal2_extract_branch(text) == Portal2_branch_loop(lower(text), 1)

\* folder names of the portals, and names of PDFs
BranchFolders ==
    { "", "III Sem", "Chemical", "Civil", "Computer Science",
      "Computer and Communication", "COMPUTER AND COMMUNICATION ENGG",
      "Electrical and Electronics", "Information Technology",
      "Architecture" }

BranchFiles == { "Thermodynamics (CHE-2104).pdf", "Computer Networks.pdf" }

\* the text each harvester hands to its extractor for a PDF below the
\* folders folder1 and folder2: the path of the URL (_parse_pdf_link
\* lines 119-131) and the joined names (_create_paper line 354)
BranchInit ==
    /\ NoRequests
    /\ \E folder1 \in BranchFolders, folder2 \in BranchFolders,
          filename \in BranchFiles :
          unit = [path |-> "/2019/" \o folder1 \o "/" \o folder2
                               \o "/" \o filename,
                  text |-> folder1 \o " " \o folder2 \o " " \o filename,
                  done1 |-> FALSE, done2 |-> FALSE,
                  b1 |-> "", b2 |-> ""]

\* _parse_pdf_link line 131
B_Portal1 ==
    /\ ~unit.done1
    /\ unit' = [unit EXCEPT !.done1 = TRUE,
                            !.b1 = Portal1_extract_branch(unit.path)]
    /\ UNCHANGED rest

\* _create_paper line 354
B_Portal2 ==
    /\ ~unit.done2
    /\ unit' = [unit EXCEPT !.done2 = TRUE,
                            !.b2 = Portal2_extract_branch(unit.text)]
    /\ UNCHANGED rest

BranchNext ==
    \/ B_Portal1
    \/ B_Portal2

BranchSpec == BranchInit /\ [][BranchNext]_vars

\* C31: branch extraction returns the first entry of the enumeration that
\* occurs in the text without regard to case (or nothing when none
\* does), and, the enumerations listing longer names first, a text that
\* contains 'Computer and Communication' yields the branch
\* 'Computer and Communication' and not 'Computer'.
C31_SpecificBranchWins ==
    LET first(branches, t, b) ==
            \/ /\ b = ""
               /\ \A k \in DOMAIN branches : ~Contains(lower(branches[k]), t)
            \/ \E k \in DOMAIN branches :
                  /\ b = branches[k]
                  /\ Contains(lower(branches[k]), t)
                  /\ \A h \in 1..(k - 1) : ~Contains(lower(branches[h]), t)
    IN  /\ unit.done1 =>
              /\ first(Portal1_branches, lower(unit.path), unit.b1)
              /\ Contains("computer and communication", lower(unit.path))
                    => unit.b1 = "Computer and Communication"
        /\ unit.done2 =>
              /\ first(Portal2_branches, lower(unit.text), unit.b2)
              /\ Contains("computer and communication", lower(unit.text))
                    => unit.b2 = "Computer and Communication"

\* ------------------------------------------ from a link to a record
\* anchors on a page
MaxAnchors == 2

\* Python's None
None == "<None>"

\* bool(x) of a string or None
Truthy(x) == x # None /\ x # ""

Portal1_BASE_URL == "https://mitmpllibportal.manipal.edu/question-papers"
Portal2_BASE_URL == "https://libportal.manipal.edu/mit/Question%20Paper.aspx"

\* the href attribute of an anchor: missing, empty, relative, rooted or
\* absolute, a PDF or not
AnchorHrefs ==
    { None, "", "q.pdf", "/files/a%20b.pdf", "https://host.example/c.pdf",
      "about.html" }

\* s.endswith(suffix)
EndsWith(s, suffix) ==
    /\ Len(s) >= Len(suffix)
    /\ SubSeq(s, Len(s) - Len(suffix) + 1, Len(s)) = suffix

\* urllib.parse.urljoin(base, url) for a base without query: an empty
\* url gives the base, a url with a scheme itself, a rooted path replaces
\* the path of the base and a relative one its last segment
urljoin(base, url) ==
    LET scheme == CHOOSE k \in 1..Len(base) :
                     /\ SubSeq(base, k, k + 2) = "://"
                     /\ \A h \in 1..(k - 1) : SubSeq(base, h, h + 2) # "://"
        slashes == { k \in (scheme + 3)..Len(base) : SubSeq(base, k, k) = "/" }
        root == CHOOSE k \in slashes : \A h \in slashes : k <= h
        last == CHOOSE k \in slashes : \A h \in slashes : k >= h
    IN  IF url = "" THEN base
        ELSE IF Contains("://", url) THEN url
        ELSE IF SubSeq(url, 1, 1) = "/" THEN SubSeq(base, 1, root - 1) \o url
        ELSE SubSeq(base, 1, last) \o url

\* Portal1Scraper.scrape_all line 51: href=lambda x: x and x.endswith('.pdf')
Portal1_is_pdf_link(href) == Truthy(href) /\ EndsWith(href, ".pdf")

\* Portal1Scraper._parse_pdf_link: the locator of the Paper, or None
parse_pdf_link(link) ==
    LET href == IF link = None THEN "" ELSE link
    IN  IF ~Truthy(href) THEN None
        ELSE urljoin(Portal1_BASE_URL, href)

\* a variant of _get_pdf_links that lists every anchor with its
\* attribute as it is
get_pdf_links_EveryAnchor(href, x) ==
    IF x = "stale" THEN << >>
    ELSE <<[url |-> IF href = None THEN "" ELSE href]>>

\* Portal2Scraper._get_pdf_links for one anchor of the page: the
\* selector a[href$='.pdf'], get_attribute('href') (the resolved URL, or
\* a stale element) and the test of line 281
get_pdf_links(href, x) ==
    IF ~(href # None /\ EndsWith(href, ".pdf")) THEN << >>
    ELSE IF x = "stale" THEN << >>
    ELSE LET resolved == urljoin(Portal2_BASE_URL, href)
         IN  IF Truthy(resolved) THEN <<[url |-> resolved]>> ELSE << >>

\* Portal2Scraper._create_paper: the locator of the Paper
create_paper(pdf_info) == [pdf_url |-> pdf_info.url]

\* a harvester in front of a page: anchors: the href of each anchor; k:
\* anchors dealt with; out: the records yielded, each with the href it
\* came from
LinkInit ==
    /\ NoRequests
    /\ \E portal \in {"portal1", "portal2"}, n \in 0..MaxAnchors :
          \E anchors \in [1..n -> AnchorHrefs] :
             unit = [portal |-> portal, anchors |-> anchors, k |-> 0,
                     out |-> {}]

\* scrape_all lines 51 and 59-66 (process_link and lines 101-103 on the
\* concurrent path) for the next anchor
A_Portal1Anchor ==
    /\ unit.portal = "portal1"
    /\ unit.k < Len(unit.anchors)
    /\ LET link == unit.anchors[unit.k + 1]
           paper == IF Portal1_is_pdf_link(link)
                    THEN parse_pdf_link(link) ELSE None
       IN  unit' = [unit EXCEPT
                      !.k = @ + 1,
                      !.out = IF paper # None
                              THEN @ \cup {[href |-> link,
                                            pdf_url |-> paper]}
                              ELSE @]
    /\ UNCHANGED rest

\* _get_pdf_links and _scrape_branch_level lines 166-171 for the next
\* anchor
A_Portal2Anchor ==
    /\ unit.portal = "portal2"
    /\ unit.k < Len(unit.anchors)
    /\ \E x \in {"ok", "stale"} :
          LET link == unit.anchors[unit.k + 1]
              pdf_links == get_pdf_links(link, x)
          IN  unit' = [unit EXCEPT
                         !.k = @ + 1,
                         !.out = @ \cup
                            { [href |-> link,
                               pdf_url |-> create_paper(pdf_links[p]).pdf_url]
                              : p \in DOMAIN pdf_links }]
    /\ UNCHANGED rest

LinkNext ==
    \/ A_Portal1Anchor
    \/ A_Portal2Anchor

LinkSpec == LinkInit /\ [][LinkNext]_vars

\* C32: every record yielded by either harvester has a non-empty source
\* locator, and an anchor with an empty or missing locator yields no
\* record at all.
C32_LocatorNeverEmpty ==
    \A r \in unit.out :
       /\ Truthy(r.pdf_url)
       /\ Truthy(r.href)

\* a page with an anchor without locator and a PDF link has been gone
\* through: one record, with the resolved locator of the PDF link
C32_Witness ==
    /\ unit.k = Len(unit.anchors)
    /\ \E a \in DOMAIN unit.anchors : ~Truthy(unit.anchors[a])
    /\ \E r \in unit.out :
          /\ r.href = "q.pdf"
          /\ r.pdf_url \in { "https://mitmpllibportal.manipal.edu/q.pdf",
                             "https://libportal.manipal.edu/mit/q.pdf" }
    /\ Cardinality(unit.out) = 1

====
